---- MODULE Spec2Model ----
(***************************************************************************)
(* A model of sizeof.py: the literal parsers (to_int_size, to_int_date),   *)
(* the range matcher (int_match_pair), the query evaluator (matches), the  *)
(* flag handling of process_args and the recursive walk process_directory. *)
(*                                                                         *)
(* Python strings are sequences of one-character strings.  Python floats   *)
(* are exact rationals [num, den] (den > 0); rounding is not modelled.     *)
(***************************************************************************)
EXTENDS Integers, Sequences, FiniteSets, TLC

\* An absent limit (Python None): no rational has den = 0.
None == [num |-> 0, den |-> 0]

\* ------------------------------------------------------------------ bounds
MaxSizeLen == 3
MaxDateLen == 3
MaxNameLen == 2
MaxGroup == 1
MaxLimit == 3
MaxDepth == 5

\* ------------------------------------------------------------ small helpers
RECURSIVE Pow(_, _)
Pow(b, e) == IF e = 0 THEN 1 ELSE b * Pow(b, e - 1)

RECURSIVE SeqsUpTo(_, _)
SeqsUpTo(S, n) ==
    IF n = 0 THEN {<<>>}
    ELSE LET shorter == SeqsUpTo(S, n - 1)
         IN  shorter \cup {Append(s, c) : s \in shorter, c \in S}

RECURSIVE SumOver(_, _)
SumOver(S, f) ==
    IF S = {} THEN 0
    ELSE LET x == CHOOSE y \in S : TRUE IN f[x] + SumOver(S \ {x}, f)

\* A Python float as an exact rational.
Rat(n) == [num |-> n, den |-> 1]
RatLE(a, b) == IF a.den = b.den THEN a.num <= b.num ELSE a.num * b.den <= b.num * a.den
RatLT(a, b) == IF a.den = b.den THEN a.num < b.num ELSE a.num * b.den < b.num * a.den
RatEq(a, b) == IF a.den = b.den THEN a.num = b.num ELSE a.num * b.den = b.num * a.den

Digits == {"0", "1", "2", "3", "4", "5", "6", "7", "8", "9"}
DigitVal(ch) ==
    CASE ch = "0" -> 0 [] ch = "1" -> 1 [] ch = "2" -> 2 [] ch = "3" -> 3
      [] ch = "4" -> 4 [] ch = "5" -> 5 [] ch = "6" -> 6 [] ch = "7" -> 7
      [] ch = "8" -> 8 [] ch = "9" -> 9

\* int(s) for a string of decimal digits.
RECURSIVE int(_)
int(s) == IF s = <<>> THEN 0 ELSE 10 * int(SubSeq(s, 1, Len(s) - 1)) + DigitVal(s[Len(s)])

\* str.upper / str.lower on the letters the model uses.
upper(ch) ==
    CASE ch = "k" -> "K" [] ch = "m" -> "M" [] ch = "g" -> "G" [] ch = "t" -> "T"
      [] ch = "p" -> "P" [] ch = "i" -> "I" [] ch = "z" -> "Z" [] ch = "a" -> "A"
      [] ch = "b" -> "B" [] OTHER -> ch
lowerCh(ch) ==
    CASE ch = "A" -> "a" [] ch = "B" -> "b" [] ch = "C" -> "c" [] OTHER -> ch
lower(s) == [i \in 1..Len(s) |-> lowerCh(s[i])]

\* ------------------------------------------------------- to_int_size (41-61)
PREFIX == <<" ", "K", "M", "G", "T", "P">>

\* float(number) for a buffer of digits and points: fails on an empty buffer,
\* on a buffer without a digit and on more than one point.
float(number) ==
    LET points == {i \in 1..Len(number) : number[i] = "."}
        digs   == SelectSeq(number, LAMBDA c : c # ".")
        frac   == IF points = {} THEN 0
                  ELSE Len(number) - (CHOOSE i \in points : TRUE)
    IN  IF Cardinality(points) > 1 \/ digs = <<>>
        THEN [ok |-> FALSE, num |-> 0, den |-> 1]
        ELSE [ok |-> TRUE, num |-> int(digs), den |-> Pow(10, frac)]

\* The index the inner for/else finds for an upper-cased symbol, 0 for none.
PrefixIndex(ch) ==
    LET hits == {idx \in 1..(Len(PREFIX) - 1) : PREFIX[idx + 1] = ch}
    IN  IF hits = {} THEN 0 ELSE CHOOSE idx \in hits : TRUE

\* The multiplier with the binary suffix ignored.
SizeBase_AlwaysDecimal(is_binary) == 1000

\* The multiplier of line 61.
SizeBase(is_binary) == IF is_binary THEN 1024 ELSE 1000

\* The for loop of lines 46-59 from character i on.
RECURSIVE SizeScan(_, _, _, _)
SizeScan(size_str, i, number, scale) ==
    IF i > Len(size_str)
    THEN [err |-> FALSE, number |-> number, scale |-> scale, is_binary |-> FALSE]
    ELSE LET ch == size_str[i] IN
         IF scale > 0
         THEN [err |-> FALSE, number |-> number, scale |-> scale, is_binary |-> (ch = "i")]
         ELSE IF ch = " " \/ ch = "_" THEN SizeScan(size_str, i + 1, number, scale)
         ELSE IF ch \in Digits \/ ch = "." THEN SizeScan(size_str, i + 1, Append(number, ch), scale)
         ELSE IF PrefixIndex(upper(ch)) = 0
              THEN [err |-> TRUE, number |-> number, scale |-> scale, is_binary |-> FALSE]
              ELSE SizeScan(size_str, i + 1, number, PrefixIndex(upper(ch)))

\* to_int_size: ok = FALSE stands for the ValueError of line 59 or of float().
to_int_size(size_str) ==
    LET st == SizeScan(size_str, 1, <<>>, 0)
        f  == float(st.number)
    IN  IF st.err \/ ~f.ok
        THEN [ok |-> FALSE, num |-> 0, den |-> 1]
        ELSE [ok |-> TRUE, num |-> f.num * Pow(SizeBase(st.is_binary), st.scale), den |-> f.den]

\* ---------------------------------------------------- int_match_pair (130-133)
\* The inverted band taken to include its two ends.
int_match_pair_ClosedBand(min_limit, max_limit, value) ==
    IF min_limit = None
    THEN (IF max_limit # None THEN RatLE(value, max_limit) ELSE TRUE)
    ELSE IF max_limit = None THEN RatLE(min_limit, value)
    ELSE IF RatLE(min_limit, max_limit)
         THEN RatLE(min_limit, value) /\ RatLE(value, max_limit)
         ELSE ~(RatLE(max_limit, value) /\ RatLE(value, min_limit))

int_match_pair(min_limit, max_limit, value) ==
    IF min_limit = None
    THEN (IF max_limit # None THEN RatLE(value, max_limit) ELSE TRUE)
    ELSE IF max_limit = None THEN RatLE(min_limit, value)
    ELSE IF RatLE(min_limit, max_limit)
         THEN RatLE(min_limit, value) /\ RatLE(value, max_limit)
         ELSE ~(RatLT(max_limit, value) /\ RatLT(value, min_limit))

\* ------------------------------------------------------------ matches (113-128)
\* fnmatch.fnmatch on a POSIX system: '*' any run, '?' one character, any other
\* pattern character itself; the whole name must match.
RECURSIVE fnmatch(_, _)
fnmatch(fname, p) ==
    IF p = <<>> THEN fname = <<>>
    ELSE IF Head(p) = "*"
         THEN fnmatch(fname, Tail(p)) \/ (fname # <<>> /\ fnmatch(Tail(fname), p))
         ELSE /\ fname # <<>>
              /\ (Head(p) = "?" \/ Head(p) = Head(fname))
              /\ fnmatch(Tail(fname), Tail(p))

and_match(fname, patterns, on_empty) ==
    IF patterns = {} THEN on_empty
    ELSE \A p \in patterns : fnmatch(fname, p)

or_match(fname, patterns, on_empty) ==
    IF patterns = {} THEN on_empty
    ELSE \E p \in patterns : fnmatch(fname, p)

\* The negated groups called with the default on_empty = True.
matches_DefaultOnEmpty(fname0, args) ==
    LET fname == IF args.insensitive THEN lower(fname0) ELSE fname0
    IN  /\ or_match(fname, args.or_any, TRUE)
        /\ and_match(fname, args.and_all, TRUE)
        /\ ~or_match(fname, args.not_any, TRUE)
        /\ ~and_match(fname, args.not_all, TRUE)

matches(fname0, args) ==
    LET fname == IF args.insensitive THEN lower(fname0) ELSE fname0
    IN  /\ or_match(fname, args.or_any, TRUE)
        /\ and_match(fname, args.and_all, TRUE)
        /\ ~or_match(fname, args.not_any, FALSE)
        /\ ~and_match(fname, args.not_all, FALSE)

\* ------------------------------------------------------- to_int_date (63-111)
\* The keys of the units dict (lines 69-70).
UnitKeys ==
    { <<"y">>, <<"y","e","a","r">>, <<"M">>, <<"m","o","n","t","h">>,
      <<"w">>, <<"w","e","e","k">>, <<"d">>, <<"d","a","y">>,
      <<"h">>, <<"h","o","u","r">>, <<"m">>, <<"m","i","n">>,
      <<"m","i","n","u","t","e">>, <<>>, <<"s","e","c">>,
      <<"s","e","c","o","n","d">> }

\* cut_num (75-83); err stands for the ValueError of line 79.
cut_num(st) ==
    IF ~st.is_unit THEN st
    ELSE LET cu   == st.cur_unit_str
             unit == IF cu # <<>> /\ cu[Len(cu)] = "s" THEN SubSeq(cu, 1, Len(cu) - 1) ELSE cu
             n    == IF st.cur_int_str = <<>> THEN 1 ELSE int(st.cur_int_str)
         IN  IF unit \notin UnitKeys THEN [st EXCEPT !.err = TRUE]
             ELSE [st EXCEPT !.units[unit] = @ + n, !.cur_int_str = <<>>,
                             !.cur_unit_str = <<>>, !.is_unit = FALSE]

\* The for loop of lines 85-92 from character i on.
RECURSIVE DateScan(_, _, _)
DateScan(date_str, i, st) ==
    IF st.err \/ i > Len(date_str) THEN st
    ELSE LET ch == date_str[i] IN
         IF ch = " " \/ ch = "_" THEN DateScan(date_str, i + 1, cut_num(st))
         ELSE IF ch \in Digits
              THEN LET c == cut_num(st)
                   IN  DateScan(date_str, i + 1, [c EXCEPT !.cur_int_str = Append(@, ch)])
              ELSE DateScan(date_str, i + 1,
                            [st EXCEPT !.is_unit = TRUE, !.cur_unit_str = Append(@, ch)])

\* Lines 94-95.
DateFinish(st) ==
    IF st.err THEN st
    ELSE IF st.is_unit THEN cut_num(st)
    ELSE IF st.cur_int_str # <<>>
         THEN [st EXCEPT !.units[<<"s","e","c">>] = @ + int(st.cur_int_str)]
         ELSE st

\* timedelta(...) of lines 97-102, in seconds.
DeltaSeconds(u) ==
    86400 * (u[<<"d">>] + u[<<"d","a","y">>] + 7 * (u[<<"w">>] + u[<<"w","e","e","k">>]))
    + 3600 * (u[<<"h">>] + u[<<"h","o","u","r">>])
    + 60 * (u[<<"m">>] + u[<<"m","i","n">>] + u[<<"m","i","n","u","t","e">>])
    + (u[<<>>] + u[<<"s","e","c">>] + u[<<"s","e","c","o","n","d">>])

\* The calendar datetime.replace validates against.
IsLeap(y) == (y % 4 = 0 /\ y % 100 # 0) \/ y % 400 = 0
DaysInMonth(y, m) ==
    IF m = 2 THEN (IF IsLeap(y) THEN 29 ELSE 28)
    ELSE IF m \in {4, 6, 9, 11} THEN 30 ELSE 31

\* Days from 1970-01-01 to the civil date y-m-d.
DaysFromCivil(y, m, d) ==
    LET yy  == IF m <= 2 THEN y - 1 ELSE y
        era == yy \div 400
        yoe == yy - era * 400
        mp  == IF m > 2 THEN m - 3 ELSE m + 9
        doy == (153 * mp + 2) \div 5 + d - 1
        doe == yoe * 365 + yoe \div 4 - yoe \div 100 + doy
    IN  era * 146097 + doe - 719468

\* datetime.timestamp() of a naive datetime, the local zone taken as UTC.
timestamp(y, m, d, secs) == DaysFromCivil(y, m, d) * 86400 + secs

\* Lines 103-109: the month and year units resolved against now.
ResolveMonth(u, now) ==
    LET months == u[<<"M">>] + u[<<"m","o","n","t","h">>]
        years  == u[<<"y">>] + u[<<"y","e","a","r">>] + months \div 12
        month  == now.month - (months % 12)
    IN  IF month <= 0 THEN [years |-> years + 1, month |-> month + 12]
        ELSE [years |-> years, month |-> month]

\* now.replace(year=, month=) (line 111) raises ValueError for a year outside
\* 1..9999 and for a day the target month does not have.
ReplaceOk(year, month, day) ==
    year >= 1 /\ year <= 9999 /\ day <= DaysInMonth(year, month)

\* to_int_date for a literal datetime.fromisoformat rejects (every literal
\* shorter than 8 characters).  ok = FALSE stands for a ValueError, badunit
\* for the one of line 79.
to_int_date(date_str, now) ==
    LET st0 == [units |-> [k \in UnitKeys |-> 0], cur_int_str |-> <<>>,
                cur_unit_str |-> <<>>, is_unit |-> FALSE, err |-> FALSE]
        st  == DateFinish(DateScan(date_str, 1, st0))
        r   == ResolveMonth(st.units, now)
        yr  == now.year - r.years
    IN  IF st.err
        THEN [ok |-> FALSE, badunit |-> TRUE, year |-> 0, month |-> 0, ts |-> 0]
        ELSE IF ~ReplaceOk(yr, r.month, now.day)
        THEN [ok |-> FALSE, badunit |-> FALSE, year |-> yr, month |-> r.month, ts |-> 0]
        ELSE [ok |-> TRUE, badunit |-> FALSE, year |-> yr, month |-> r.month,
              ts |-> timestamp(yr, r.month, now.day, now.secs) - DeltaSeconds(st.units)]

\* ------------------------------------------------------ stat_match (135-137)
stat_match(stat, args) ==
    /\ int_match_pair(args.min_bytes, args.max_bytes, Rat(stat.size))
    /\ int_match_pair(args.min_date, args.max_date, Rat(stat.mtime))

\* ------------------------------------------------------------ the file system
\* What os.scandir yields: per directory the sequence of its entries.  type is
\* what is_dir()/is_file() answer (both follow a symlink; "other" is a broken
\* link), target the directory a "dir" entry leads to, ino the file it names.
Root == "A"
DirIds == {"A", "B", "C", "X"}

\* datetime.now() of line 199 for the runs of main.
Now0 == [year |-> 2024, month |-> 3, day |-> 31, secs |-> 0]
NowTs == timestamp(Now0.year, Now0.month, Now0.day, Now0.secs)

FileEntry(name, ino, size, age) ==
    [name |-> name, type |-> "file", symlink |-> FALSE, target |-> "",
     ino |-> ino, size |-> size, mtime |-> NowTs - age]
DirEntry(name, target) ==
    [name |-> name, type |-> "dir", symlink |-> FALSE, target |-> target,
     ino |-> 0, size |-> 0, mtime |-> 0]

f1 == FileEntry(<<"a">>, 1, 10, 172800)
f2 == FileEntry(<<"a", "b">>, 2, 20, 43200)
f3 == FileEntry(<<"A">>, 3, 0, 3456000)
f4 == FileEntry(<<"b">>, 4, 5, 3600)

\* A holds f1 and B, B holds f2 and C, C holds f3; X lies outside the tree.
BaseTree ==
    [d \in DirIds |->
        CASE d = "A" -> <<f1, DirEntry(<<"B">>, "B")>>
          [] d = "B" -> <<f2, DirEntry(<<"C">>, "C")>>
          [] d = "C" -> <<f3>>
          [] d = "X" -> <<f4>>]

LinkPlaces == {"A", "B", "C"}
LinkTargets == {"A", "B", "C", "X", "f1", "broken"}

\* The entry of a symlink named L to a directory, to the file f1, or to nothing.
LinkEntry(tgt) ==
    IF tgt \in DirIds
    THEN [DirEntry(<<"L">>, tgt) EXCEPT !.symlink = TRUE]
    ELSE IF tgt = "f1"
    THEN [f1 EXCEPT !.name = <<"L">>, !.symlink = TRUE]
    ELSE [name |-> <<"L">>, type |-> "other", symlink |-> TRUE, target |-> "",
          ino |-> 0, size |-> 0, mtime |-> 0]

WithLink(place, tgt) == [BaseTree EXCEPT ![place] = Append(@, LinkEntry(tgt))]

FileSystems == {BaseTree} \cup {WithLink(p, t) : p \in LinkPlaces, t \in LinkTargets}

\* ------------------------------------------------------------- command lines
\* The pattern groups of a command line; "" (here <<>>) is an option not given.
WalkQueries ==
    { [or_any |-> {}, and_all |-> {}, not_any |-> {}, not_all |-> {}, insensitive |-> FALSE],
      [or_any |-> {<<"a", "*">>}, and_all |-> {}, not_any |-> {<<"*", "b">>}, not_all |-> {},
       insensitive |-> FALSE],
      [or_any |-> {}, and_all |-> {<<"A">>}, not_any |-> {}, not_all |-> {},
       insensitive |-> TRUE] }
\* -m/-M and -t/-T: plain, inverted and one-sided limits, and one literal that
\* does not parse.
SizeArgs ==
    { <<<<>>, <<>>>>, <<<<"2", "0">>, <<>>>>, <<<<>>, <<"5">>>>,
      <<<<"2", "0">>, <<"5">>>>, <<<<"1", "x">>, <<>>>> }
DateArgs == { <<<<>>, <<>>>>, <<<<"1", "d">>, <<>>>>, <<<<>>, <<"1", "M">>>> }

RawArgs ==
    { [directories |-> d, files |-> f, verbose |-> v, summary |-> s, quiet |-> q,
       follow_links |-> fl, insensitive |-> qu.insensitive,
       or_any |-> qu.or_any, and_all |-> qu.and_all,
       not_any |-> qu.not_any, not_all |-> qu.not_all,
       min_size |-> sz[1], max_size |-> sz[2], newer |-> dt[1], older |-> dt[2]] :
      d \in BOOLEAN, f \in BOOLEAN, v \in BOOLEAN, s \in BOOLEAN, q \in BOOLEAN,
      fl \in BOOLEAN, qu \in WalkQueries, sz \in SizeArgs, dt \in DateArgs }

\* ------------------------------------------------------ process_args (198-234)
\* Lines 201-203 and 210-212: a literal given is parsed, one not given is None.
ParseDateArg(date_str, now) ==
    IF date_str = <<>> THEN [ok |-> TRUE, val |-> None]
    ELSE LET r == to_int_date(date_str, now) IN [ok |-> r.ok, val |-> Rat(r.ts)]
ParseSizeArg(size_str) ==
    IF size_str = <<>> THEN [ok |-> TRUE, val |-> None]
    ELSE LET r == to_int_size(size_str)
         IN  [ok |-> r.ok, val |-> [num |-> r.num, den |-> r.den]]

\* Lines 223-225: -q with any of -v, -s, -d, -f is a usage error.
QuietConflict(raw) ==
    raw.quiet /\ (raw.verbose \/ raw.files \/ raw.directories \/ raw.summary)

\* Lines 226-228: what -v switches on.
VerboseFlags(raw) ==
    [directories |-> raw.directories,
     files       |-> raw.files \/ raw.verbose,
     summary     |-> raw.summary \/ raw.verbose]

\* Lines 229-233: the groups lower-cased under -i.
FoldGroup(raw, group) == IF raw.insensitive THEN {lower(x) : x \in group} ELSE group

\* The exit of process_args: "parse_error" (204, 213), "usage_error" (225) or "ok".
ArgsExit(raw, now) ==
    IF ~ParseDateArg(raw.newer, now).ok \/ ~ParseDateArg(raw.older, now).ok THEN "parse_error"
    ELSE IF ~ParseSizeArg(raw.min_size).ok \/ ~ParseSizeArg(raw.max_size).ok THEN "parse_error"
    ELSE IF QuietConflict(raw) THEN "usage_error"
    ELSE "ok"

process_args(raw, now) ==
    LET vf == VerboseFlags(raw)
    IN  [directories |-> vf.directories, files |-> vf.files, summary |-> vf.summary,
         verbose |-> raw.verbose, quiet |-> raw.quiet,
         follow_links |-> raw.follow_links, insensitive |-> raw.insensitive,
         or_any  |-> FoldGroup(raw, raw.or_any),
         and_all |-> FoldGroup(raw, raw.and_all),
         not_any |-> FoldGroup(raw, raw.not_any),
         not_all |-> FoldGroup(raw, raw.not_all),
         min_date  |-> ParseDateArg(raw.newer, now).val,
         max_date  |-> ParseDateArg(raw.older, now).val,
         min_bytes |-> ParseSizeArg(raw.min_size).val,
         max_bytes |-> ParseSizeArg(raw.max_size).val]

\* ------------------------------------------------- process_directory (139-166)
\* The locals of one call (141-145), the directory it scans and the iterator's
\* position in it.
NewFrame(loc, dir) ==
    [loc |-> loc, dir |-> dir, idx |-> 1, matched_size |-> 0, matched_in_subdirs |-> 0,
     matched_count |-> 0, total_files |-> 0, total_size |-> 0]

\* Lines 147-148: the entry is passed over.
Skipped(entry, args) == entry.symlink /\ ~args.follow_links

\* The totals counted only for a file that does not match.
CountFile_TotalsInElse(f, entry, args) ==
    LET hit == matches(entry.name, args) /\ stat_match(entry, args)
    IN  [f EXCEPT !.idx = @ + 1,
                  !.total_files = IF hit THEN @ ELSE @ + 1,
                  !.total_size = IF hit THEN @ ELSE @ + entry.size,
                  !.matched_size = IF hit THEN @ + entry.size ELSE @,
                  !.matched_count = IF hit THEN @ + 1 ELSE @]

\* Lines 156-163: a file entry counted.
CountFile(f, entry, args) ==
    LET hit == matches(entry.name, args) /\ stat_match(entry, args)
    IN  [f EXCEPT !.idx = @ + 1,
                  !.total_files = @ + 1,
                  !.total_size = @ + entry.size,
                  !.matched_size = IF hit THEN @ + entry.size ELSE @,
                  !.matched_count = IF hit THEN @ + 1 ELSE @]

\* The tuple returned without the subtree accumulator.
ReturnValue_OwnOnly(f) ==
    [valid |-> TRUE, loc |-> f.loc, dir |-> f.dir,
     msize |-> f.matched_size, mcount |-> f.matched_count,
     tsize |-> f.total_size, tcount |-> f.total_files]

\* Line 166: the tuple returned.
ReturnValue(f) ==
    [valid |-> TRUE, loc |-> f.loc, dir |-> f.dir,
     msize |-> f.matched_size + f.matched_in_subdirs, mcount |-> f.matched_count,
     tsize |-> f.total_size, tcount |-> f.total_files]

\* The caller adding the matched numbers of a subdirectory but not its totals.
AddChild_DropsTotals(f, r) ==
    [f EXCEPT !.idx = @ + 1,
              !.matched_in_subdirs = @ + r.msize,
              !.matched_count = @ + r.mcount]

\* Lines 150-154: the caller adds what the call for a subdirectory returned.
AddChild(f, r) ==
    [f EXCEPT !.idx = @ + 1,
              !.matched_in_subdirs = @ + r.msize,
              !.matched_count = @ + r.mcount,
              !.total_size = @ + r.tsize,
              !.total_files = @ + r.tcount]

\* Line 165: the per-directory line (format_size is display only: the line
\* carries the number it formats).
DirLine(f) == [kind |-> "dir", size |-> f.matched_size, path |-> f.loc]
\* Line 161.
FileLine(f, entry) == [kind |-> "file", size |-> entry.size, path |-> Append(f.loc, entry.name)]

NoReturn ==
    [valid |-> FALSE, loc |-> <<>>, dir |-> "", msize |-> 0, mcount |-> 0,
     tsize |-> 0, tcount |-> 0]

\* ------------------------------------------------------------------- state
\* pc    where main is: "args", "main", "walk", "report", "done", or one of the
\*       exits "parse_error", "usage_error", "error" ("idle": no run of main)
\* raw   the command line as argparse read it; args what process_args returns
\* fs    the file system; stack the calls of process_directory in progress
\* out   the lines printed; ret what the last call of process_directory returned
\* call  a direct call of one of the pure functions, res what it returned
VARIABLES pc, raw, args, fs, stack, out, ret, call, res

vars == <<pc, raw, args, fs, stack, out, ret, call, res>>

NoArgs == [set |-> FALSE]
NoCall == [fn |-> "none"]
NoRes == [done |-> FALSE, val |-> FALSE]

\* ------------------------------------------------------------- a run of main
InitWith(cmdlines) ==
    /\ pc = "args"
    /\ raw \in cmdlines
    /\ fs \in FileSystems
    /\ args = NoArgs
    /\ stack = <<>>
    /\ out = <<>>
    /\ ret = NoReturn
    /\ call = NoCall
    /\ res = NoRes

Init == InitWith(RawArgs)

\* main, line 263: process_args returns or exits.
ProcessArgs ==
    /\ pc = "args"
    /\ LET exit == ArgsExit(raw, Now0)
       IN  IF exit = "ok"
           THEN pc' = "main" /\ args' = process_args(raw, Now0)
           ELSE pc' = exit /\ args' = args
    /\ UNCHANGED <<raw, fs, stack, out, ret, call, res>>

RootPath == << <<".">> >>

\* main, lines 264-265: the header line, then the call for the start path.
StartWalk ==
    /\ pc = "main"
    /\ pc' = "walk"
    /\ out' = IF args.quiet THEN out
              ELSE Append(out, [kind |-> "header", size |-> 0, path |-> RootPath])
    /\ stack' = <<NewFrame(RootPath, Root)>>
    /\ UNCHANGED <<raw, args, fs, ret, call, res>>

Top == stack[Len(stack)]
AtEntry == pc = "walk" /\ Top.idx <= Len(fs[Top.dir])
Entry == fs[Top.dir][Top.idx]
SetTop(f) == [stack EXCEPT ![Len(stack)] = f]

\* Lines 147-148: a symlink without --follow-links.
SkipLink ==
    /\ AtEntry
    /\ Skipped(Entry, args)
    /\ stack' = SetTop([Top EXCEPT !.idx = @ + 1])
    /\ UNCHANGED <<pc, raw, args, fs, out, ret, call, res>>

\* Lines 149-150: the recursive call for a directory entry.
EnterDir ==
    /\ AtEntry
    /\ ~Skipped(Entry, args)
    /\ Entry.type = "dir"
    /\ Len(stack) < MaxDepth
    /\ stack' = Append(stack, NewFrame(Append(Top.loc, Entry.name), Entry.target))
    /\ UNCHANGED <<pc, raw, args, fs, out, ret, call, res>>

\* The same call when the nesting the platform allows is used up: the walk
\* ends in an exception (RecursionError, or OSError for too many levels of
\* symbolic links) that nothing catches.
NestingExhausted ==
    /\ AtEntry
    /\ ~Skipped(Entry, args)
    /\ Entry.type = "dir"
    /\ Len(stack) >= MaxDepth
    /\ pc' = "error"
    /\ UNCHANGED <<raw, args, fs, stack, out, ret, call, res>>

\* Lines 155-163: a file entry.
VisitFile ==
    /\ AtEntry
    /\ ~Skipped(Entry, args)
    /\ Entry.type = "file"
    /\ stack' = SetTop(CountFile(Top, Entry, args))
    /\ out' = IF args.files /\ matches(Entry.name, args) /\ stat_match(Entry, args)
              THEN Append(out, FileLine(Top, Entry)) ELSE out
    /\ UNCHANGED <<pc, raw, args, fs, ret, call, res>>

\* An entry that is neither a directory nor a file (146-155 fall through).
PassOther ==
    /\ AtEntry
    /\ ~Skipped(Entry, args)
    /\ Entry.type = "other"
    /\ stack' = SetTop([Top EXCEPT !.idx = @ + 1])
    /\ UNCHANGED <<pc, raw, args, fs, out, ret, call, res>>

\* Lines 165-166 and, in the caller, 150-154: the iterator is exhausted, the
\* directory's line is printed, the call returns and the caller adds the tuple.
Return ==
    /\ pc = "walk"
    /\ Top.idx > Len(fs[Top.dir])
    /\ out' = IF args.directories THEN Append(out, DirLine(Top)) ELSE out
    /\ ret' = ReturnValue(Top)
    /\ IF Len(stack) = 1
       THEN pc' = "report" /\ stack' = <<>>
       ELSE /\ pc' = pc
            /\ stack' = Append(SubSeq(stack, 1, Len(stack) - 2),
                               AddChild(stack[Len(stack) - 1], ReturnValue(Top)))
    /\ UNCHANGED <<raw, args, fs, call, res>>

\* main, lines 266-281: the closing line.
FinalLine(a, r) ==
    IF a.quiet THEN [kind |-> "quiet", size |-> r.msize, path |-> <<>>]
    ELSE IF a.summary
         THEN (IF r.mcount # 0 THEN [kind |-> "matched", size |-> r.msize, path |-> <<>>]
               ELSE [kind |-> "nomatch", size |-> r.tcount, path |-> <<>>])
         ELSE [kind |-> "total", size |-> r.msize, path |-> <<>>]

Report ==
    /\ pc = "report"
    /\ pc' = "done"
    /\ out' = Append(out, FinalLine(args, ret))
    /\ UNCHANGED <<raw, args, fs, stack, ret, call, res>>

Next ==
    \/ ProcessArgs
    \/ StartWalk
    \/ SkipLink
    \/ EnterDir
    \/ NestingExhausted
    \/ VisitFile
    \/ PassOther
    \/ Return
    \/ Report

Spec == Init /\ [][Next]_vars

\* The command lines without limits and output flags other than -d.
PlainArgs ==
    {r \in RawArgs : /\ ~r.files /\ ~r.verbose /\ ~r.summary /\ ~r.quiet
                     /\ r.min_size = <<>> /\ r.max_size = <<>>
                     /\ r.newer = <<>> /\ r.older = <<>>}

\* A run of main is one thread: a step that can be taken is taken.
FairSpec == InitWith(PlainArgs) /\ [][Next]_vars /\ WF_vars(Next)

\* ------------------------------------------------- the functions called alone
SizeAlphabet == {"1", "2", "5", ".", " ", "_", "K", "m", "i", "Z"}
SizeExamples ==
    { <<"1", ".", "5", "K">>, <<"2", "K", "i", " ">>, <<"1", " ", "0", "0", "0", "k">>,
      <<"1", "G">>, <<"1", "g", "i">>, <<"2", "5", "M", "i">> }
SizeLiterals == SeqsUpTo(SizeAlphabet, MaxSizeLen) \cup SizeExamples

\* The digits keep every resolved instant an epoch second of 32 bits.
DateAlphabet == {"0", "1", "M", "y", "d", "s", "_", "x"}
DateExamples ==
    { <<"1", "w", "e", "e", "k", "_", "5", "m", "i", "n">>,
      <<"1", "y", "e", "a", "r", "_", "1", "m", "o", "n", "t", "h">>,
      <<"1", "3", "m", "o", "n", "t", "h">>, <<"2", "f", "o", "r", "t", "n", "i", "g", "h", "t">> }
DateLiterals == SeqsUpTo(DateAlphabet, MaxDateLen) \cup DateExamples
Nows ==
    { [year |-> y, month |-> m, day |-> d, secs |-> 3600] :
      y \in {2023, 2024}, m \in {1, 3, 12}, d \in {15, 29, 30, 31} }

Limits == {None} \cup {Rat(n) : n \in (0..MaxLimit) \cup {50, 100}} \cup {[num |-> 3, den |-> 2]}
Values == {Rat(n) : n \in (0..(MaxLimit + 1)) \cup {10, 50, 75, 100, 1000}} \cup {[num |-> 5, den |-> 2]}

NameAlphabet == {"a", "A", "b"}
Names == SeqsUpTo(NameAlphabet, MaxNameLen)
Patterns == {<<"a", "*">>, <<"?">>, <<"*", "A">>}
Groups == {g \in SUBSET Patterns : Cardinality(g) <= MaxGroup}
Queries ==
    { [or_any |-> o, and_all |-> a, not_any |-> n, not_all |-> na, insensitive |-> i] :
      o \in Groups, a \in Groups, n \in Groups, na \in Groups, i \in BOOLEAN }

\* The groups as process_args hands them to matches (229-233).
FoldQuery(q) ==
    [or_any |-> FoldGroup(q, q.or_any), and_all |-> FoldGroup(q, q.and_all),
     not_any |-> FoldGroup(q, q.not_any), not_all |-> FoldGroup(q, q.not_all),
     insensitive |-> q.insensitive]

FnInit ==
    /\ pc = "idle"
    /\ raw = NoArgs
    /\ args = NoArgs
    /\ fs = BaseTree
    /\ stack = <<>>
    /\ out = <<>>
    /\ ret = NoReturn
    /\ res = NoRes
    /\ \/ \E s \in SizeLiterals : call = [fn |-> "to_int_size", size_str |-> s]
       \/ \E s \in DateLiterals, n \in Nows :
              call = [fn |-> "to_int_date", date_str |-> s, now |-> n]
       \/ \E lo \in Limits, hi \in Limits, v \in Values :
              call = [fn |-> "int_match_pair", min_limit |-> lo, max_limit |-> hi, value |-> v]
       \/ \E n \in Names, q \in Queries :
              call = [fn |-> "matches", fname |-> n, query |-> q]

Returns(fn, val) ==
    /\ pc = "idle"
    /\ call.fn = fn
    /\ ~res.done
    /\ res' = [done |-> TRUE, val |-> val]
    /\ UNCHANGED <<pc, raw, args, fs, stack, out, ret, call>>

CallToIntSize == Returns("to_int_size", to_int_size(call.size_str))
CallToIntDate == Returns("to_int_date", to_int_date(call.date_str, call.now))
CallIntMatchPair ==
    Returns("int_match_pair", int_match_pair(call.min_limit, call.max_limit, call.value))
CallMatches == Returns("matches", matches(call.fname, FoldQuery(call.query)))

FnNext ==
    \/ CallToIntSize
    \/ CallToIntDate
    \/ CallIntMatchPair
    \/ CallMatches

FnSpec == FnInit /\ [][FnNext]_vars

\* ===================================================================== claims
\* What the claims measure the walk against: the entries a walk passes over
\* or counts, and the sums over the paths below a directory.
Visible(e) == ~e.symlink \/ args.follow_links
IsHit(e) == matches(e.name, args) /\ stat_match(e, args)
FileIdx(d) == {i \in 1..Len(fs[d]) : fs[d][i].type = "file" /\ Visible(fs[d][i])}
HitIdx(d) == {i \in FileIdx(d) : IsHit(fs[d][i])}
SubDirIdx(d) == {i \in 1..Len(fs[d]) : fs[d][i].type = "dir" /\ Visible(fs[d][i])}
OwnMatchedSize(d) == SumOver(HitIdx(d), [i \in HitIdx(d) |-> fs[d][i].size])

RECURSIVE SubtreeMatchedSize(_)
SubtreeMatchedSize(d) ==
    OwnMatchedSize(d)
    + SumOver(SubDirIdx(d), [i \in SubDirIdx(d) |-> SubtreeMatchedSize(fs[d][i].target)])

RECURSIVE SubtreeFileCount(_)
SubtreeFileCount(d) ==
    Cardinality(FileIdx(d))
    + SumOver(SubDirIdx(d), [i \in SubDirIdx(d) |-> SubtreeFileCount(fs[d][i].target)])

RECURSIVE SubtreeFileSize(_)
SubtreeFileSize(d) ==
    SumOver(FileIdx(d), [i \in FileIdx(d) |-> fs[d][i].size])
    + SumOver(SubDirIdx(d), [i \in SubDirIdx(d) |-> SubtreeFileSize(fs[d][i].target)])

DirLinesFor(loc) == {i \in 1..Len(out) : out[i].kind = "dir" /\ out[i].path = loc}
Returned == pc \in {"report", "done"}

\* C1: when a call of process_directory has returned, the line it printed for
\* its directory (under -d) carries the summed size of the matching files that
\* are direct children of that directory, and the matchedSize it returned is the
\* summed size of the matching files on every path below that directory.
C1_OwnLevelReportSubtreeReturn ==
    ret.valid =>
        /\ ret.msize = SubtreeMatchedSize(ret.dir)
        /\ args.directories =>
              /\ DirLinesFor(ret.loc) # {}
              /\ \A i \in DirLinesFor(ret.loc) : out[i].size = OwnMatchedSize(ret.dir)

\* A with matching f1 (10) and B below it with matching f2 (20): the line of A
\* says 10 and the call for A returned 30.
C1_Witness ==
    /\ Returned
    /\ fs = BaseTree
    /\ ret.dir = Root
    /\ ret.msize = 30
    /\ \E i \in DirLinesFor(RootPath) : out[i].size = 10

\* C2: what a call of process_directory returns has 0 <= matchedCount <=
\* totalCount and 0 <= matchedSize <= totalSize, at every directory level.
C2_MatchedWithinTotal ==
    ret.valid =>
        /\ 0 <= ret.mcount /\ ret.mcount <= ret.tcount
        /\ 0 <= ret.msize /\ ret.msize <= ret.tsize

\* A call below the root returned with some files matched and some not.
C2_Witness ==
    /\ pc = "walk"
    /\ ret.valid
    /\ 0 < ret.mcount /\ ret.mcount < ret.tcount
    /\ 0 < ret.msize /\ ret.msize < ret.tsize

\* C3: the totalCount and totalSize the call for the root returns are the
\* number and the summed size of the file entries on the paths of the walk that
\* are not passed over, whatever the pattern groups, -i and the limits are (the
\* right-hand sides read none of them).
C3_RootTotalsCountEveryFile ==
    Returned =>
        /\ ret.tcount = SubtreeFileCount(Root)
        /\ ret.tsize = SubtreeFileSize(Root)

\* A finished walk whose filters rejected files that the totals still count.
C3_Witness ==
    /\ pc = "done"
    /\ ret.mcount = 0
    /\ ret.tcount = 3
    /\ ret.tsize = 30
    /\ args.min_bytes # None

\* The directories a walk enters, and the files (by identity) it can reach.
RECURSIVE ReachClosure(_)
ReachClosure(S) ==
    LET more == S \cup UNION {{fs[d][i].target : i \in SubDirIdx(d)} : d \in S}
    IN  IF more = S THEN S ELSE ReachClosure(more)
ReachFiles ==
    UNION {{<<fs[d][i].ino, fs[d][i].size>> : i \in FileIdx(d)} : d \in ReachClosure({Root})}
LinksLeadToDirs ==
    \A d \in DirIds : \A i \in 1..Len(fs[d]) : fs[d][i].symlink => fs[d][i].type = "dir"
RECURSIVE SumSizes(_)
SumSizes(S) ==
    IF S = {} THEN 0 ELSE LET x == CHOOSE y \in S : TRUE IN x[2] + SumSizes(S \ {x})

\* C6: in a tree whose symlinks lead to directories, the totals of a finished
\* walk count every file the walk can reach exactly once: without
\* --follow-links nothing behind a symlink, with it the contents of a symlinked
\* directory once, also when the target lies inside the walked tree.
C6_SymlinkedContentsCountedOnce ==
    (Returned /\ LinksLeadToDirs) =>
        /\ ret.tcount = Cardinality(ReachFiles)
        /\ ret.tsize = SumSizes(ReachFiles)

\* C7: a walk that has started returns its result to main.
C7_WalkReturns == (pc = "walk") ~> (pc = "report")

\* C9: after process_args, -v has switched on -d, -f and -s, and a finished
\* verbose run has printed the per-directory line of the start path.
C9_VerboseIsDFS ==
    (raw.verbose /\ pc \in {"main", "walk", "report", "done"}) =>
        /\ args.directories /\ args.files /\ args.summary
        /\ pc = "done" => DirLinesFor(RootPath) # {}

\* -------------------------------------------------- claims on direct calls
Called(fn) == call.fn = fn /\ res.done

\* C4: int_match_pair is true without limits; value >= min with min alone;
\* value <= max with max alone; min <= value <= max with both and min <= max;
\* and with min > max true exactly when value is not strictly between max and
\* min.
C4_RangeMatcherCases ==
    Called("int_match_pair") =>
        LET lo == call.min_limit
            hi == call.max_limit
            v  == call.value
        IN  res.val =
              CASE lo = None /\ hi = None -> TRUE
                [] lo # None /\ hi = None -> RatLE(lo, v)
                [] lo = None /\ hi # None -> RatLE(v, hi)
                [] OTHER ->
                     IF ~RatLT(hi, lo) THEN RatLE(lo, v) /\ RatLE(v, hi)
                     ELSE ~(RatLT(hi, v) /\ RatLT(v, lo))

\* The inverted limits (100, 50) reject 75.
C4_Witness ==
    /\ Called("int_match_pair")
    /\ call.min_limit = Rat(100) /\ call.max_limit = Rat(50)
    /\ call.value = Rat(75)
    /\ ~res.val

BodyChars == Digits \cup {".", " ", "_"}
PrefixLetters == {"K", "M", "G", "T", "P", "k", "m", "g", "t", "p"}
BodyLen(s) ==
    LET stops == {i \in 1..Len(s) : s[i] \notin BodyChars}
    IN  IF stops = {} THEN Len(s) ELSE (CHOOSE i \in stops : \A j \in stops : i <= j) - 1
SizeBody(s) == SelectSeq(SubSeq(s, 1, BodyLen(s)), LAMBDA c : c \notin {" ", "_"})
SizeSuffix(s) == SubSeq(s, BodyLen(s) + 1, Len(s))
IsSizeLiteral(s) ==
    /\ float(SizeBody(s)).ok
    /\ \/ SizeSuffix(s) = <<>>
       \/ Len(SizeSuffix(s)) = 1 /\ SizeSuffix(s)[1] \in PrefixLetters
       \/ Len(SizeSuffix(s)) = 2 /\ SizeSuffix(s)[1] \in PrefixLetters /\ SizeSuffix(s)[2] = "i"
ScaleIndex(letter) ==
    CASE letter \in {"K", "k"} -> 1 [] letter \in {"M", "m"} -> 2
      [] letter \in {"G", "g"} -> 3 [] letter \in {"T", "t"} -> 4
      [] letter \in {"P", "p"} -> 5
ExpectedSize(s) ==
    LET v    == float(SizeBody(s))
        suf  == SizeSuffix(s)
        idx  == IF suf = <<>> THEN 0 ELSE ScaleIndex(suf[1])
        base == IF Len(suf) = 2 THEN 1024 ELSE 1000
    IN  [num |-> v.num * Pow(base, idx), den |-> v.den]

\* C8: for such a literal to_int_size returns its numeric value times
\* base^scaleIndex, scaleIndex the place of the prefix letter in the scale
\* table (0 without one) and base 1024 exactly when an i follows the prefix
\* letter, 1000 otherwise.
C8_SizeLiteralValue ==
    (Called("to_int_size") /\ IsSizeLiteral(call.size_str)) =>
        /\ res.val.ok
        /\ RatEq(res.val, ExpectedSize(call.size_str))

\* "2Ki" is 2048.
C8_Witness ==
    /\ Called("to_int_size")
    /\ call.size_str = <<"2", "K", "i">>
    /\ res.val.ok
    /\ RatEq(res.val, Rat(2048))

\* C10: to_int_date fails on unknown unit text only: with every unit of the
\* literal in the alias table it returns a timestamp, whatever day of the month
\* now is, and the month it resolves to is a month of the calendar.
C10_OnlyUnknownUnitsFail ==
    (Called("to_int_date") /\ ~res.val.badunit) =>
        /\ res.val.ok
        /\ res.val.month \in 1..12

====
